---- MODULE Spec2Model ----
(***************************************************************************)
(* Name resolution across the three published snapshots of the crate       *)
(* semver-trick (0.2.0, 0.2.1, 0.3.0).                                      *)
(*                                                                         *)
(* The snapshots contain only `pub struct`, `pub mod` and `pub use` items.  *)
(* What they decide is which struct declaration a dependent's import path   *)
(* reaches, and therefore whether two dependents built against different    *)
(* snapshots agree on a type.  The model is the compiler's path resolver    *)
(* run over those items on behalf of two dependent crates, each locked to   *)
(* one snapshot and importing one path from it.                             *)
(***************************************************************************)
EXTENDS Naturals, Sequences, FiniteSets

VARIABLES req, import, ty, was, last, pc, who, cur, hops, result

vars == <<req, import, ty, was, last, pc, who, cur, hops, result>>

(* ------------------------------------------------------------------ *)
(* Bounds                                                             *)
(* ------------------------------------------------------------------ *)

\* The resolver gives up on an alias chain after this many `pub use` hops.
MaxHops == 2

(* ------------------------------------------------------------------ *)
(* The three snapshots, item by item                                  *)
(* ------------------------------------------------------------------ *)

Snapshots == {"0.2.0", "0.2.1", "0.3.0"}

\* The two downstream crates of the build.
Dependents == {"d1", "d2"}

NoCrate == "none"

\* Variant: the bridge declares Unchanged itself instead of re-exporting it.
StructsBridgeOwnsUnchanged(s) ==
    CASE s = "0.2.0" -> {<<"Unchanged">>, <<"Removed">>, <<"before", "Moved">>}
      [] s = "0.2.1" -> {<<"Unchanged">>, <<"Removed">>}
      [] s = "0.3.0" -> {<<"Unchanged">>, <<"Added">>, <<"after", "Moved">>}
      [] OTHER -> {}

\* Variant: 0.3.0 still declares Removed.
StructsNewKeepsRemoved(s) ==
    CASE s = "0.2.0" -> {<<"Unchanged">>, <<"Removed">>, <<"before", "Moved">>}
      [] s = "0.2.1" -> {<<"Removed">>}
      [] s = "0.3.0" -> {<<"Unchanged">>, <<"Removed">>, <<"Added">>, <<"after", "Moved">>}
      [] OTHER -> {}

\* `pub struct` items of a snapshot, by their path from the crate root.
Structs(s) ==
    CASE s = "0.2.0" -> {<<"Unchanged">>, <<"Removed">>, <<"before", "Moved">>}
      [] s = "0.2.1" -> {<<"Removed">>}
      [] s = "0.3.0" -> {<<"Unchanged">>, <<"Added">>, <<"after", "Moved">>}
      [] OTHER -> {}

\* `pub mod` items of a snapshot.
Mods(s) ==
    CASE s = "0.2.0" -> {<<"before">>}
      [] s = "0.2.1" -> {<<"before">>}
      [] s = "0.3.0" -> {<<"after">>}
      [] OTHER -> {}

\* Variant: the bridge puts the alias of Moved in module `after`, not `before`.
UsesWrongModule(s) ==
    CASE s = "0.2.1" -> {[at |-> <<"Unchanged">>, target |-> <<"Unchanged">>],
                         [at |-> <<"after", "Moved">>, target |-> <<"after", "Moved">>]}
      [] OTHER -> {}

\* `pub use semver_trick::<target>` items of a snapshot: `at` is the path the
\* alias is visible under, `target` the path inside the extern crate.
Uses(s) ==
    CASE s = "0.2.1" -> {[at |-> <<"Unchanged">>, target |-> <<"Unchanged">>],
                         [at |-> <<"before", "Moved">>, target |-> <<"after", "Moved">>]}
      [] OTHER -> {}

\* The public paths of a snapshot that name a type.
TypePaths(s) == Structs(s) \cup {u.at : u \in Uses(s)}

\* The snapshots against which every `pub use` of s finds its target.  A
\* package cannot depend on itself, so s is not among them.
Candidates(s) ==
    {t \in Snapshots \ {s} : \A u \in Uses(s) : u.target \in Structs(t)}

\* Variant: the bridge is built against the old snapshot.
ExternCrateOld(s) == IF s = "0.2.1" THEN "0.2.0" ELSE NoCrate

\* Variant: `semver_trick` names the snapshot itself.
ExternCrateSelf(s) == IF s = "0.2.1" THEN "0.2.1" ELSE NoCrate

\* The snapshot that `extern crate semver_trick` of s binds to: the one the
\* `pub use` lines of s compile against.  A snapshot without `extern crate`
\* binds to nothing.
ExternCrate(s) ==
    IF Uses(s) = {} \/ Candidates(s) = {} THEN NoCrate
    ELSE CHOOSE t \in Candidates(s) : TRUE

\* Every path a dependent can write down from the items of the snapshots.
ImportPaths == UNION {Structs(s) \cup Mods(s) \cup {u.at : u \in Uses(s)} : s \in Snapshots}

(* ------------------------------------------------------------------ *)
(* Type identities                                                    *)
(* ------------------------------------------------------------------ *)

\* A type is identified by the crate that declares it and its path there.
Unknown == [crate |-> "unknown", path |-> <<>>]
NoType == [crate |-> NoCrate, path |-> <<>>]

IsType(t) == t.crate \in Snapshots

TypeNameOf(t) == t.path[Len(t.path)]

(* ------------------------------------------------------------------ *)
(* Initial state                                                      *)
(* ------------------------------------------------------------------ *)

Init ==
    /\ req \in [Dependents -> Snapshots]
    /\ import \in [Dependents -> ImportPaths]
    /\ ty = [d \in Dependents |-> Unknown]
    /\ was = [d \in Dependents |-> Unknown]
    /\ last = [from |-> "none", to |-> "none", ok |-> FALSE]
    /\ pc = "idle"
    /\ who = "none"
    /\ cur = NoType
    /\ hops = 0
    /\ result = Unknown

(* ------------------------------------------------------------------ *)
(* The resolver                                                       *)
(* ------------------------------------------------------------------ *)

\* Compile dependent d: start resolving its import in the snapshot it is
\* locked to.
Build(d) ==
    /\ pc = "idle"
    /\ ty[d] = Unknown
    /\ who' = d
    /\ cur' = [crate |-> req[d], path |-> import[d]]
    /\ hops' = 0
    /\ result' = Unknown
    /\ pc' = "walk"
    /\ UNCHANGED <<req, import, ty, was, last>>

\* The current path is a `pub struct` of the current crate: that declaration
\* is the type.
HitStruct ==
    /\ pc = "walk"
    /\ cur.path \in Structs(cur.crate)
    /\ result' = cur
    /\ pc' = "done"
    /\ UNCHANGED <<req, import, ty, was, last, who, cur, hops>>

CanFollow ==
    /\ cur.path \notin Structs(cur.crate)
    /\ \E u \in Uses(cur.crate) : u.at = cur.path
    /\ ExternCrate(cur.crate) # NoCrate
    /\ hops < MaxHops

\* The current path is a `pub use`: continue at its target in the extern crate.
FollowUse ==
    /\ pc = "walk"
    /\ CanFollow
    /\ \E u \in Uses(cur.crate) :
          /\ u.at = cur.path
          /\ cur' = [crate |-> ExternCrate(cur.crate), path |-> u.target]
    /\ hops' = hops + 1
    /\ UNCHANGED <<req, import, ty, was, last, pc, who, result>>

\* The current path names no type (nothing there, a module, or an alias that
\* cannot be followed): unresolved import.
Unresolved ==
    /\ pc = "walk"
    /\ cur.path \notin Structs(cur.crate)
    /\ ~CanFollow
    /\ result' = NoType
    /\ pc' = "done"
    /\ UNCHANGED <<req, import, ty, was, last, who, cur, hops>>

\* Resolution is over: the dependent's import now has its type (or its error).
Finish ==
    /\ pc = "done"
    /\ ty' = [ty EXCEPT ![who] = result]
    /\ pc' = "idle"
    /\ who' = "none"
    /\ UNCHANGED <<req, import, was, last, cur, hops, result>>

(* ------------------------------------------------------------------ *)
(* The dependents                                                     *)
(* ------------------------------------------------------------------ *)

\* A dependent built against 0.2.0 takes the semver-compatible release 0.2.1
\* in its place, source unchanged, and has to be compiled again.
Upgrade(d) ==
    /\ pc = "idle"
    /\ req[d] = "0.2.0"
    /\ ty[d] # Unknown
    /\ req' = [req EXCEPT ![d] = "0.2.1"]
    /\ was' = [was EXCEPT ![d] = ty[d]]
    /\ ty' = [ty EXCEPT ![d] = Unknown]
    /\ last' = [from |-> "none", to |-> "none", ok |-> FALSE]
    /\ UNCHANGED <<import, pc, who, cur, hops, result>>

\* Dependent d hands a value of its imported type to dependent e, which
\* expects its own imported type: accepted only when both are one type.
TypeCheck(d, e) ==
    /\ pc = "idle"
    /\ d # e
    /\ ty[d] # Unknown
    /\ ty[e] # Unknown
    /\ last' = [from |-> d, to |-> e, ok |-> (IsType(ty[d]) /\ ty[d] = ty[e])]
    /\ UNCHANGED <<req, import, ty, was, pc, who, cur, hops, result>>

Resolve == HitStruct \/ FollowUse \/ Unresolved \/ Finish

Next ==
    \/ \E d \in Dependents : Build(d)
    \/ HitStruct
    \/ FollowUse
    \/ Unresolved
    \/ Finish
    \/ \E d \in Dependents : Upgrade(d)
    \/ \E d, e \in Dependents : TypeCheck(d, e)

Spec == Init /\ [][Next]_vars

\* A started resolution is run to its end by the compiler.
FairSpec == Spec /\ WF_vars(Resolve)

(* ------------------------------------------------------------------ *)
(* Properties                                                         *)
(* ------------------------------------------------------------------ *)

\* Dependent d is locked to snapshot s, imports path p, and has been compiled.
At(d, s, p) == req[d] = s /\ import[d] = p /\ ty[d] # Unknown

\* The last hand-over of a value was between d and e, in either direction.
Met(d, e) == {last.from, last.to} = {d, e}

MovedNew == [crate |-> "0.3.0", path |-> <<"after", "Moved">>]
UnchangedNew == [crate |-> "0.3.0", path |-> <<"Unchanged">>]
UnchangedOld == [crate |-> "0.2.0", path |-> <<"Unchanged">>]

\* C1: before::Moved of 0.2.1 and after::Moved of 0.3.0 are one type: both
\* resolve to the struct Moved declared in module `after` of 0.3.0, and a value
\* handed from a dependent on one to a dependent on the other is accepted.
C1_MovedIsOneType ==
    \A d, e \in Dependents :
        /\ At(d, "0.2.1", <<"before", "Moved">>) => ty[d] = MovedNew
        /\ At(d, "0.3.0", <<"after", "Moved">>) => ty[d] = MovedNew
        /\ (At(d, "0.2.1", <<"before", "Moved">>) /\ At(e, "0.3.0", <<"after", "Moved">>)
              /\ Met(d, e)) => last.ok

C1_Witness ==
    \E d, e \in Dependents :
        /\ At(d, "0.2.1", <<"before", "Moved">>)
        /\ At(e, "0.3.0", <<"after", "Moved">>)
        /\ last.from = d /\ last.to = e /\ last.ok

\* C2: upgrading a dependent from 0.2.0 to 0.2.1 breaks no import: whatever
\* import resolved to a type against 0.2.0 (Unchanged, Removed, before::Moved)
\* resolves to a type against 0.2.1.
C2_UpgradeKeepsImports ==
    \A d \in Dependents :
        (req[d] = "0.2.1" /\ IsType(was[d]) /\ ty[d] # Unknown) => IsType(ty[d])

C2_Witness ==
    \E d \in Dependents :
        /\ was[d] = [crate |-> "0.2.0", path |-> <<"before", "Moved">>]
        /\ At(d, "0.2.1", <<"before", "Moved">>)
        /\ IsType(ty[d])

\* C3: Unchanged of 0.2.1 and Unchanged of 0.3.0 are one type, so a value of
\* Unchanged passes between a dependent on 0.2.1 and a dependent on 0.3.0.
C3_UnchangedShared ==
    \A d, e \in Dependents :
        (At(d, "0.2.1", <<"Unchanged">>) /\ At(e, "0.3.0", <<"Unchanged">>)) =>
            /\ IsType(ty[d])
            /\ ty[d] = ty[e]
            /\ Met(d, e) => last.ok

C3_Witness ==
    \E d, e \in Dependents :
        /\ At(d, "0.2.1", <<"Unchanged">>)
        /\ At(e, "0.3.0", <<"Unchanged">>)
        /\ last.from = e /\ last.to = d /\ last.ok

C5_Original ==
    \A d \in Dependents :
        (req[d] = "0.2.1" /\ import[d] \in {<<"Unchanged">>, <<"before", "Moved">>}
            /\ ty[d] # Unknown) => ty[d].crate = "0.2.0"

\* C5 amended: 0.2.1 re-exports Unchanged and before::Moved from 0.3.0: the
\* resolver leaves 0.2.1 for 0.3.0 on either path, and the declarations reached
\* are Unchanged and after::Moved of 0.3.0.
C5_ReexportsFromNew ==
    /\ (pc = "walk" /\ hops > 0) =>
          /\ req[who] = "0.2.1"
          /\ cur.crate = "0.3.0"
          /\ cur.path \in Structs("0.3.0")
    /\ \A d \in Dependents :
          /\ At(d, "0.2.1", <<"Unchanged">>) => ty[d] = UnchangedNew
          /\ At(d, "0.2.1", <<"before", "Moved">>) => ty[d] = MovedNew

C5_Witness ==
    \E d, e \in Dependents :
        /\ At(d, "0.2.1", <<"before", "Moved">>)
        /\ ty[d].crate = "0.3.0"
        /\ pc = "walk" /\ hops = 1 /\ who = e /\ import[e] = <<"Unchanged">>

\* C6 as stated: every public type path of 0.2.1 resolves to a type declared
\* in 0.3.0, and 0.2.1 declares no type of its own.
C6_Original ==
    \A d \in Dependents :
        /\ (req[d] = "0.2.1" /\ import[d] \in TypePaths("0.2.1") /\ ty[d] # Unknown) =>
              ty[d].crate = "0.3.0"
        /\ ty[d].crate # "0.2.1"

\* C6 amended: every public type path of 0.2.1 other than Removed resolves to
\* a type declared in 0.3.0, and Removed is the one type 0.2.1 declares itself.
C6_BridgeAliasesAllButRemoved ==
    \A d \in Dependents :
        /\ (req[d] = "0.2.1" /\ import[d] \in TypePaths("0.2.1")
              /\ import[d] # <<"Removed">> /\ ty[d] # Unknown) => ty[d].crate = "0.3.0"
        /\ ty[d].crate = "0.2.1" => ty[d].path = <<"Removed">>

C6_Witness ==
    \E d, e \in Dependents :
        /\ At(d, "0.2.1", <<"Removed">>) /\ ty[d].crate = "0.2.1"
        /\ At(e, "0.2.1", <<"Unchanged">>) /\ ty[e].crate = "0.3.0"

\* C7: no path of 0.3.0 reaches a type named Removed, while Removed resolves in
\* 0.2.0 and in 0.2.1; Added resolves in 0.3.0 and in neither 0.2.0 nor 0.2.1.
C7_RemovedAndAdded ==
    \A d \in Dependents :
        ty[d] # Unknown =>
            /\ (req[d] = "0.3.0" /\ IsType(ty[d])) => TypeNameOf(ty[d]) # "Removed"
            /\ import[d] = <<"Removed">> => (IsType(ty[d]) <=> req[d] \in {"0.2.0", "0.2.1"})
            /\ import[d] = <<"Added">> => (IsType(ty[d]) <=> req[d] = "0.3.0")

C7_Witness ==
    \E d, e \in Dependents :
        /\ At(d, "0.3.0", <<"Removed">>) /\ ty[d] = NoType
        /\ At(e, "0.3.0", <<"Added">>) /\ IsType(ty[e])

\* C8: in 0.2.0 and 0.2.1 the only path to a type named Moved is before::Moved
\* and after::Moved does not resolve; in 0.3.0 the only path is after::Moved
\* and before::Moved does not resolve.
C8_MovedChangesModule ==
    \A d \in Dependents :
        ty[d] # Unknown =>
            /\ import[d] = <<"before", "Moved">> =>
                  (IsType(ty[d]) <=> req[d] \in {"0.2.0", "0.2.1"})
            /\ import[d] = <<"after", "Moved">> => (IsType(ty[d]) <=> req[d] = "0.3.0")
            /\ (IsType(ty[d]) /\ TypeNameOf(ty[d]) = "Moved") =>
                  import[d] = IF req[d] = "0.3.0" THEN <<"after", "Moved">>
                              ELSE <<"before", "Moved">>

C8_Witness ==
    \E d, e \in Dependents :
        /\ At(d, "0.2.1", <<"after", "Moved">>) /\ ty[d] = NoType
        /\ At(e, "0.3.0", <<"before", "Moved">>) /\ ty[e] = NoType

\* C9: Removed of 0.2.1 is a struct declared in 0.2.1, distinct from Removed of
\* 0.2.0 and from every type of 0.3.0, and it is the only type path of 0.2.1
\* whose type is not a type of 0.3.0.
C9_BridgeDeclaresRemoved ==
    \A d, e \in Dependents :
        /\ At(d, "0.2.1", <<"Removed">>) =>
              /\ ty[d] = [crate |-> "0.2.1", path |-> <<"Removed">>]
              /\ ty[d].path \in Structs("0.2.1")
              /\ (At(e, "0.2.0", <<"Removed">>) /\ Met(d, e)) => ~last.ok
              /\ (req[e] = "0.3.0" /\ ty[e] # Unknown /\ Met(d, e)) => ~last.ok
        /\ (req[d] = "0.2.1" /\ IsType(ty[d]) /\ ty[d].crate # "0.3.0") =>
              import[d] = <<"Removed">>

C9_Witness ==
    \E d, e \in Dependents :
        /\ At(d, "0.2.1", <<"Removed">>)
        /\ At(e, "0.2.0", <<"Removed">>)
        /\ IsType(ty[e])
        /\ last.from = e /\ last.to = d /\ ~last.ok

\* The state part of C10: only 0.2.1 refers to another snapshot, and that one
\* refers to none; no `pub use` dangles; a resolution takes at most one alias
\* hop; a finished resolution of a public type path is a struct declaration.
C10_Safe ==
    /\ ExternCrate("0.2.0") = NoCrate
    /\ ExternCrate("0.3.0") = NoCrate
    /\ ExternCrate("0.2.1") \in Snapshots \ {"0.2.1"}
    /\ ExternCrate(ExternCrate("0.2.1")) = NoCrate
    /\ \A u \in Uses("0.2.1") : u.target \in Structs(ExternCrate("0.2.1"))
    /\ hops <= 1
    /\ (pc = "done" /\ import[who] \in TypePaths(req[who])) =>
          /\ IsType(result)
          /\ result.path \in Structs(result.crate)

\* C10: name resolution is well-founded: the snapshots' references are
\* acyclic and none dangles, and resolving a path always terminates, for a
\* public type path at one struct declaration after at most one alias hop.
C10_ResolutionWellFounded == []C10_Safe /\ (pc = "walk" ~> pc = "done")

C10_Witness ==
    /\ pc = "done"
    /\ hops = 1
    /\ req[who] = "0.2.1"
    /\ import[who] = <<"before", "Moved">>
    /\ result = MovedNew
====
